---- MODULE Spec2Model ----
(***************************************************************************)
(* AutoChip project-architecture scripts: the $ref resolver                *)
(* (load_json_with_refs), the module and test-case extractors and the      *)
(* schema validation adapter (validate_json), with the main() of each.     *)
(*                                                                         *)
(* Strings are modelled split at "/": the Python string s is the sequence  *)
(* s.split("/"), so "" is <<"">>, "cpu/alu" is <<"cpu", "alu">>, and        *)
(* f"{p}/{n}" is p \o n.  Paths are sequences of components from "/".      *)
(***************************************************************************)
EXTENDS Integers, Sequences, FiniteSets, TLC

VARIABLES tool, fs, schema, resolve_flag, pc, stack, data, result, exc, lookups

vars == <<tool, fs, schema, resolve_flag, pc, stack, data, result, exc, lookups>>

(***************************************************************************)
(* JSON values, as json.load returns them, tagged with their Python type.  *)
(* A dict is its sequence of <<key, value>> pairs in insertion order.      *)
(***************************************************************************)
Dict(pairs) == [t |-> "dict", v |-> pairs]
List(items) == [t |-> "list", v |-> items]
Str(s) == [t |-> "str", v |-> s]
Num(n) == [t |-> "num", v |-> n]
None == [t |-> "null", v |-> 0]

IsDict(x) == x.t = "dict"
IsList(x) == x.t = "list"
IsStr(x) == x.t = "str"

\* `key in obj`
HasKey(d, k) == \E i \in 1..Len(d.v) : d.v[i][1] = k
\* obj[key]
Get(d, k) == d.v[CHOOSE i \in 1..Len(d.v) : d.v[i][1] = k][2]
\* obj.get(key): None when the key is absent
GetOpt(d, k) == IF HasKey(d, k) THEN Get(d, k) ELSE None
\* Python truthiness, `if x:` and bool(x)
Truthy(x) ==
    CASE x.t = "dict" -> Len(x.v) > 0
      [] x.t = "list" -> Len(x.v) > 0
      [] x.t = "str" -> x.v # <<"">>
      [] x.t = "num" -> x.v # 0
      [] OTHER -> FALSE

(***************************************************************************)
(* Paths (pathlib) and the file system                                     *)
(***************************************************************************)
\* the components pathlib keeps of a joined string: "." and "" are dropped
RECURSIVE Components(_)
Components(s) ==
    IF s = <<>> THEN <<>>
    ELSE IF Head(s) \in {".", ""} THEN Components(Tail(s))
    ELSE <<Head(s)>> \o Components(Tail(s))

\* current_base / ref_path
JoinPath(base, s) == base \o Components(s)

\* Path.parent
Parent(path) == IF path = <<>> THEN <<>> ELSE SubSeq(path, 1, Len(path) - 1)

\* faulty variant: only './' is taken as relative
IsRelativeDotOnly(s) == Len(s) >= 2 /\ s[1] = "."

\* ref_path.startswith('./') or ref_path.startswith('../')
IsRelative(s) == Len(s) >= 2 /\ s[1] \in {".", ".."}

IsFile(p) == p \in DOMAIN fs
IsDir(p) == \E f \in DOMAIN fs : Len(f) > Len(p) /\ SubSeq(f, 1, Len(p)) = p

\* what the operating system finds at a path: ".." steps up from a directory
RECURSIVE Walk(_, _)
Walk(cur, rest) ==
    IF rest = <<>> THEN [found |-> IsFile(cur) \/ IsDir(cur), at |-> cur]
    ELSE IF Head(rest) = ".."
         THEN IF IsDir(cur) THEN Walk(Parent(cur), Tail(rest))
              ELSE [found |-> FALSE, at |-> cur]
         ELSE Walk(Append(cur, Head(rest)), Tail(rest))

\* Path.exists()
Exists(path) == Walk(<<>>, path).found

\* open(path) then json.load: the exception raised, or the parsed value
NoPath == <<"<none>">>
Exc(cls, msg, src) == [cls |-> cls, msg |-> msg, src |-> src]
OpenLoad(path) ==
    LET w == Walk(<<>>, path) IN
    IF ~w.found THEN [ok |-> FALSE, exc |-> Exc("FileNotFoundError", path, path)]
    ELSE IF ~IsFile(w.at) THEN [ok |-> FALSE, exc |-> Exc("IsADirectoryError", path, path)]
    ELSE IF ~fs[w.at].ok THEN [ok |-> FALSE, exc |-> Exc("JSONDecodeError", NoPath, path)]
    ELSE [ok |-> TRUE, json |-> fs[w.at].json]

(***************************************************************************)
(* Inputs: the command line of one run                                     *)
(***************************************************************************)
JsonPath == <<"p", "root.json">>

\* the interpreter's recursion limit, scaled down
RecursionLimit == 14

NoData == [t |-> "unset", v |-> 0]
NoExc == [cls |-> "none", msg |-> NoPath, src |-> NoPath]
NoResult == [ok |-> FALSE, category |-> "running", named |-> NoPath, out |-> <<>>,
             raised |-> FALSE]
Outcome(ok, category, named, out) ==
    [ok |-> ok, category |-> category, named |-> named, out |-> out, raised |-> FALSE]

(***************************************************************************)
(* Exception handlers                                                      *)
(***************************************************************************)
\* faulty variant: main() without its FileNotFoundError clause
MainHandleNoFileNotFound(e) ==
    CASE e.cls = "JSONDecodeError" -> Outcome(FALSE, "MalformedDocument", JsonPath, <<>>)
      [] OTHER -> Outcome(FALSE, "Unexpected", e.msg, <<>>)

\* main() of extract_modules.py and extract_testcases.py: the except clauses
MainHandle(e) ==
    CASE e.cls = "FileNotFoundError" -> Outcome(FALSE, "FileNotFound", e.msg, <<>>)
      [] e.cls = "JSONDecodeError" -> Outcome(FALSE, "MalformedDocument", JsonPath, <<>>)
      [] OTHER -> Outcome(FALSE, "Unexpected", e.msg, <<>>)

\* faulty variant: validate_json without its last clause, except Exception
ValidateHandleNoCatchAll(e) ==
    CASE e.cls = "FileNotFoundError" -> Outcome(FALSE, "FileNotFound", e.msg, <<>>)
      [] e.cls = "JSONDecodeError" -> Outcome(FALSE, "MalformedDocument", JsonPath, <<>>)
      [] e.cls = "ValidationError" -> Outcome(FALSE, "SchemaViolation", e.msg, <<>>)
      [] OTHER -> [NoResult EXCEPT !.raised = TRUE]

\* validate_json: the except clauses
ValidateHandle(e) ==
    CASE e.cls = "FileNotFoundError" -> Outcome(FALSE, "FileNotFound", e.msg, <<>>)
      [] e.cls = "JSONDecodeError" -> Outcome(FALSE, "MalformedDocument", JsonPath, <<>>)
      [] e.cls = "ValidationError" -> Outcome(FALSE, "SchemaViolation", e.msg, <<>>)
      [] OTHER -> Outcome(FALSE, "Unexpected", e.msg, <<>>)

Handle(e) == IF tool = "validate" THEN ValidateHandle(e) ELSE MainHandle(e)

\* an exception leaves load_json_with_refs and reaches the caller's handler
Raise(e) ==
    /\ pc' = "done"
    /\ stack' = <<>>
    /\ result' = Handle(e)
    /\ exc' = e
    /\ UNCHANGED <<tool, fs, schema, resolve_flag, data>>

(***************************************************************************)
(* load_json_with_refs: resolve_refs as its call stack.  A frame is one    *)
(* call resolve_refs(obj, current_base); file is the file obj was read     *)
(* from and acc the results of the recursive calls made so far.            *)
(***************************************************************************)
Frame(obj, base, file) == [obj |-> obj, base |-> base, file |-> file, acc |-> <<>>]
Top == stack[Len(stack)]

IsRefNode(x) == IsDict(x) /\ HasKey(x, "$ref")
\* ref_file = current_base / ref_path
RefFile(current_base, ref_path) == JoinPath(current_base, ref_path)
\* faulty variant: the referenced data is resolved against the referring file's base
RefBaseOfCaller(ref_file, current_base) == current_base

\* the base the referenced data is resolved against: ref_file.parent
RefBase(ref_file, current_base) == Parent(ref_file)

\* faulty variant: a reference to a file some call on the stack is resolving is
\* not followed
PendingUnlessResolving(fr) ==
    IF IsRefNode(fr.obj)
    THEN /\ IsStr(Get(fr.obj, "$ref")) /\ IsRelative(Get(fr.obj, "$ref").v) /\ fr.acc = <<>>
         /\ \A k \in 1..Len(stack) :
              Walk(<<>>, stack[k].file)
                # Walk(<<>>, RefFile(fr.base, Get(fr.obj, "$ref").v))
    ELSE (IsDict(fr.obj) \/ IsList(fr.obj)) /\ Len(fr.acc) < Len(fr.obj.v)

\* the call has a recursive call left to make
Pending(fr) ==
    IF IsRefNode(fr.obj)
    THEN IsStr(Get(fr.obj, "$ref")) /\ IsRelative(Get(fr.obj, "$ref").v) /\ fr.acc = <<>>
    ELSE (IsDict(fr.obj) \/ IsList(fr.obj)) /\ Len(fr.acc) < Len(fr.obj.v)

\* the value the call returns once nothing is pending
Returned(fr) ==
    IF IsRefNode(fr.obj)
    THEN IF fr.acc = <<>> THEN fr.obj ELSE fr.acc[1]
    ELSE IF IsDict(fr.obj) THEN Dict(fr.acc)
    ELSE IF IsList(fr.obj) THEN List(fr.acc)
    ELSE fr.obj

\* the caller takes the value of the call that returned
Deliver(fr, val) ==
    IF IsDict(fr.obj) /\ ~IsRefNode(fr.obj)
    THEN [fr EXCEPT !.acc = Append(@, <<fr.obj.v[Len(fr.acc) + 1][1], val>>)]
    ELSE [fr EXCEPT !.acc = Append(@, val)]

Push(fr) ==
    /\ Len(stack) < RecursionLimit
    /\ stack' = Append(stack, fr)
    /\ UNCHANGED <<tool, fs, schema, resolve_flag, pc, data, result, exc>>

\* open(file_path), json.load and the first call of resolve_refs
LoadRoot ==
    /\ pc = "load"
    /\ tool = "validate" => resolve_flag
    /\ LET ld == OpenLoad(JsonPath) IN
       IF ld.ok
       THEN /\ stack' = <<Frame(ld.json, Parent(JsonPath), JsonPath)>>
            /\ pc' = "resolve"
            /\ UNCHANGED <<tool, fs, schema, resolve_flag, data, result, exc>>
       ELSE Raise(ld.exc)
    /\ UNCHANGED lookups

\* a dict without $ref or a list: the next value is resolved with the same base
ResolveDescend ==
    /\ pc = "resolve" /\ stack # <<>>
    /\ ~IsRefNode(Top.obj) /\ Pending(Top)
    /\ LET item == Top.obj.v[Len(Top.acc) + 1]
           child == IF IsDict(Top.obj) THEN item[2] ELSE item
       IN Push(Frame(child, Top.base, Top.file))
    /\ UNCHANGED lookups

\* $ref whose value has no startswith
ResolveRefNotString ==
    /\ pc = "resolve" /\ stack # <<>>
    /\ IsRefNode(Top.obj) /\ ~IsStr(Get(Top.obj, "$ref"))
    /\ Raise(Exc("AttributeError", NoPath, Top.file))
    /\ UNCHANGED lookups

\* a relative $ref whose target does not exist
ResolveRefMissing ==
    /\ pc = "resolve" /\ stack # <<>>
    /\ IsRefNode(Top.obj) /\ Pending(Top)
    /\ LET ref_file == RefFile(Top.base, Get(Top.obj, "$ref").v) IN
       /\ ~Exists(ref_file)
       /\ Raise(Exc("FileNotFoundError", ref_file, ref_file))
       /\ lookups' = Append(lookups, [src |-> Top.file, ref |-> Get(Top.obj, "$ref").v,
                                      path |-> ref_file, found |-> FALSE])

\* a relative $ref whose target exists and cannot be opened or parsed
ResolveRefUnreadable ==
    /\ pc = "resolve" /\ stack # <<>>
    /\ IsRefNode(Top.obj) /\ Pending(Top)
    /\ LET ref_file == RefFile(Top.base, Get(Top.obj, "$ref").v)
           ld == OpenLoad(ref_file)
       IN /\ Exists(ref_file)
          /\ ~ld.ok
          /\ Raise(ld.exc)
          /\ lookups' = Append(lookups, [src |-> Top.file, ref |-> Get(Top.obj, "$ref").v,
                                         path |-> ref_file, found |-> TRUE])

\* a relative $ref whose target parses: its data is resolved against its own directory
ResolveRefLoad ==
    /\ pc = "resolve" /\ stack # <<>>
    /\ IsRefNode(Top.obj) /\ Pending(Top)
    /\ LET ref_file == RefFile(Top.base, Get(Top.obj, "$ref").v)
           ld == OpenLoad(ref_file)
       IN /\ Exists(ref_file)
          /\ ld.ok
          /\ Push(Frame(ld.json, RefBase(ref_file, Top.base), ref_file))
          /\ lookups' = Append(lookups, [src |-> Top.file, ref |-> Get(Top.obj, "$ref").v,
                                         path |-> ref_file, found |-> TRUE])

\* the recursive call exceeds the interpreter's recursion limit
ResolveOverflow ==
    /\ pc = "resolve" /\ stack # <<>>
    /\ Pending(Top)
    /\ IsRefNode(Top.obj) => OpenLoad(RefFile(Top.base, Get(Top.obj, "$ref").v)).ok
    /\ Len(stack) >= RecursionLimit
    /\ Raise(Exc("RecursionError", NoPath, Top.file))
    /\ lookups' = IF IsRefNode(Top.obj)
                  THEN Append(lookups, [src |-> Top.file, ref |-> Get(Top.obj, "$ref").v,
                                        path |-> RefFile(Top.base, Get(Top.obj, "$ref").v),
                                        found |-> TRUE])
                  ELSE lookups

\* a call returns: to its caller, or from load_json_with_refs with the document
ResolveReturn ==
    /\ pc = "resolve" /\ stack # <<>>
    /\ ~Pending(Top)
    /\ IsRefNode(Top.obj) => IsStr(Get(Top.obj, "$ref"))
    /\ LET val == Returned(Top)
           n == Len(stack)
       IN IF n = 1
          THEN /\ stack' = <<>>
               /\ data' = val
               /\ pc' = "loaded"
          ELSE /\ stack' = [SubSeq(stack, 1, n - 1) EXCEPT ![n - 1] = Deliver(@, val)]
               /\ UNCHANGED <<data, pc>>
    /\ UNCHANGED <<tool, fs, schema, resolve_flag, result, exc, lookups>>

(***************************************************************************)
(* extract_modules                                                         *)
(***************************************************************************)
\* f"{x}" of a JSON scalar
Format(x) == IF IsStr(x) THEN x.v ELSE IF x.t = "num" THEN <<ToString(x.v)>> ELSE <<"None">>

\* data.get(key, '')
GetOr(d, k, default) == IF HasKey(d, k) THEN Get(d, k) ELSE default

\* all(key in data for key in ['name', 'filepath', 'docpath'])
IsModule(d) ==
    IsDict(d) /\ HasKey(d, "name") /\ HasKey(d, "filepath") /\ HasKey(d, "docpath")

\* full_name = f"{parent_name}/{module_name}" if parent_name else module_name
FullName(parent_name, module_name) ==
    IF parent_name # <<"">> THEN parent_name \o module_name ELSE module_name

\* faulty variant: the visited set is never consulted
NotVisitedAlways(full_name, visited) == TRUE

\* full_name not in visited
NotVisited(full_name, visited) == full_name \notin visited

ModuleInfo(d, parent_name, full_name) ==
    [name |-> Get(d, "name"),
     filepath |-> GetOr(d, "filepath", Str(<<"">>)),
     docpath |-> GetOr(d, "docpath", Str(<<"">>)),
     parent |-> IF parent_name # <<"">> THEN Str(parent_name) ELSE None,
     full_path |-> full_name,
     has_test |-> HasKey(d, "test"),
     has_submodules |-> Truthy(GetOpt(d, "submodules"))]

\* faulty variant: the record is appended after the submodules' records
EmitModuleLast(module_info, extracted) == extracted \o <<module_info>>

\* modules.append(module_info), then modules.extend(...) for the submodules
EmitModule(module_info, extracted) == <<module_info>> \o extracted

\* the result of a call: the list returned and the shared visited set after it
Extracted(list, visited) == [list |-> list, visited |-> visited]

RECURSIVE extract_modules(_, _, _)
RECURSIVE ExtractModulesEach(_, _, _)
extract_modules(d, parent_name, visited) ==
    IF ~IsModule(d) THEN Extracted(<<>>, visited)
    ELSE LET module_name == Format(Get(d, "name"))
             full_name == FullName(parent_name, module_name)
         IN IF ~NotVisited(full_name, visited) THEN Extracted(<<>>, visited)
            ELSE LET seen == visited \cup {full_name}
                     submodules == GetOpt(d, "submodules")
                     sub == IF Truthy(submodules) /\ IsList(submodules)
                            THEN ExtractModulesEach(submodules.v, full_name, seen)
                            ELSE IF Truthy(submodules) /\ IsDict(submodules)
                            THEN extract_modules(submodules, full_name, seen)
                            ELSE Extracted(<<>>, seen)
                 IN Extracted(EmitModule(ModuleInfo(d, parent_name, full_name), sub.list),
                              sub.visited)

\* for submodule in submodules: if isinstance(submodule, dict): modules.extend(...)
ExtractModulesEach(items, full_name, visited) ==
    IF items = <<>> THEN Extracted(<<>>, visited)
    ELSE LET first == IF IsDict(Head(items))
                      THEN extract_modules(Head(items), full_name, visited)
                      ELSE Extracted(<<>>, visited)
             rest == ExtractModulesEach(Tail(items), full_name, first.visited)
         IN Extracted(first.list \o rest.list, rest.visited)

(***************************************************************************)
(* extract_testcases                                                       *)
(***************************************************************************)
\* faulty variant: the synthetic name counts from one
TestNameOneBased(tc, idx) == GetOr(tc, "name", Str(<<"test_" \o ToString(idx + 1)>>))

\* tc.get('name', f'test_{idx}')
TestName(tc, idx) == GetOr(tc, "name", Str(<<"test_" \o ToString(idx)>>))

TestcaseInfo(tc, idx, current_module, module_name, test_config) ==
    [module |-> current_module,
     module_path |-> module_name,
     test_name |-> TestName(tc, idx),
     run_cmd |-> GetOr(tc, "run_cmd", Str(<<"">>)),
     output_log_path |-> GetOr(tc, "output_log_path", List(<<>>)),
     output_wave_path |-> GetOr(tc, "output_wave_path", None),
     testbench_path |-> GetOr(test_config, "testbench_path", Str(<<"">>)),
     golden_model_path |-> GetOr(test_config, "golden_model_path", Str(<<"">>))]

\* for idx, tc in enumerate(test_case_list): if isinstance(tc, dict): append
RECURSIVE TestcasesFrom(_, _, _, _, _)
TestcasesFrom(list, idx, current_module, module_name, test_config) ==
    IF idx >= Len(list) THEN <<>>
    ELSE (IF IsDict(list[idx + 1])
          THEN <<TestcaseInfo(list[idx + 1], idx, current_module, module_name, test_config)>>
          ELSE <<>>)
         \o TestcasesFrom(list, idx + 1, current_module, module_name, test_config)

\* the test cases of one module: data.get('test') and its test_case list
OwnTestcases(d, current_module, module_name) ==
    LET test_config == GetOpt(d, "test") IN
    IF Truthy(test_config) /\ IsDict(test_config)
    THEN LET test_case_list == GetOr(test_config, "test_case", List(<<>>)) IN
         IF Truthy(test_case_list) /\ IsList(test_case_list)
         THEN TestcasesFrom(test_case_list.v, 0, current_module, module_name, test_config)
         ELSE <<>>
    ELSE <<>>

\* faulty variant: no module counts as visited
AlreadyVisitedNever(current_module, module_name, visited) == FALSE

\* if current_module in visited: return testcases
AlreadyVisited(current_module, module_name, visited) == current_module \in visited

\* full_module_path = f"{module_name}/{current_module}" if module_name else current_module
FullModulePath(module_name, current_module) ==
    IF module_name # <<"">> THEN module_name \o Format(current_module)
    ELSE Format(current_module)

RECURSIVE extract_testcases(_, _, _)
RECURSIVE ExtractTestcasesEach(_, _, _)
extract_testcases(d, module_name, visited) ==
    IF ~(IsDict(d) /\ HasKey(d, "name")) THEN Extracted(<<>>, visited)
    ELSE LET current_module == Get(d, "name") IN
         IF AlreadyVisited(current_module, module_name, visited) THEN Extracted(<<>>, visited)
         ELSE LET seen == visited \cup {current_module}
                  submodules == GetOpt(d, "submodules")
                  full_module_path == FullModulePath(module_name, current_module)
                  sub == IF Truthy(submodules) /\ IsList(submodules)
                         THEN ExtractTestcasesEach(submodules.v, full_module_path, seen)
                         ELSE IF Truthy(submodules) /\ IsDict(submodules)
                         THEN extract_testcases(submodules, full_module_path, seen)
                         ELSE Extracted(<<>>, seen)
              IN Extracted(OwnTestcases(d, current_module, module_name) \o sub.list,
                           sub.visited)

ExtractTestcasesEach(items, full_module_path, visited) ==
    IF items = <<>> THEN Extracted(<<>>, visited)
    ELSE LET first == IF IsDict(Head(items))
                      THEN extract_testcases(Head(items), full_module_path, visited)
                      ELSE Extracted(<<>>, visited)
             rest == ExtractTestcasesEach(Tail(items), full_module_path, first.visited)
         IN Extracted(first.list \o rest.list, rest.visited)

(***************************************************************************)
(* main() of the three scripts, and validate_json                          *)
(***************************************************************************)
Finish(outcome) ==
    /\ pc' = "done"
    /\ result' = outcome
    /\ UNCHANGED <<tool, fs, schema, resolve_flag, stack, data, exc, lookups>>

\* the existence checks main() makes before anything is loaded
MainStart ==
    /\ pc = "main"
    /\ IF tool = "validate" /\ schema = "missing"
       THEN Finish(Outcome(FALSE, "FileNotFound", <<"p", "schema.json">>, <<>>))
       ELSE IF ~Exists(JsonPath)
       THEN Finish(Outcome(FALSE, "FileNotFound", JsonPath, <<>>))
       ELSE /\ pc' = IF tool = "validate" THEN "schema" ELSE "load"
            /\ UNCHANGED <<tool, fs, schema, resolve_flag, stack, data, result, exc, lookups>>

\* validate_json: open(schema_path) and json.load
ValidateLoadSchema ==
    /\ pc = "schema"
    /\ IF schema = "missing"
       THEN Raise(Exc("FileNotFoundError", <<"p", "schema.json">>, <<"p", "schema.json">>))
       ELSE IF schema = "malformed"
       THEN Raise(Exc("JSONDecodeError", NoPath, <<"p", "schema.json">>))
       ELSE /\ pc' = "load"
            /\ UNCHANGED <<tool, fs, schema, resolve_flag, stack, data, result, exc>>
    /\ UNCHANGED lookups

\* validate_json with resolve_refs=False: the document is loaded as it is
LoadRaw ==
    /\ pc = "load"
    /\ tool = "validate" /\ ~resolve_flag
    /\ LET ld == OpenLoad(JsonPath) IN
       IF ld.ok
       THEN /\ data' = ld.json
            /\ pc' = "loaded"
            /\ UNCHANGED <<tool, fs, schema, resolve_flag, stack, result, exc>>
       ELSE Raise(ld.exc)
    /\ UNCHANGED lookups

\* validate_json: the schema store, then the validation engine, whose verdict is its own
RunValidate ==
    /\ pc = "loaded" /\ tool = "validate"
    /\ IF schema = "notdict"
       THEN Raise(Exc("AttributeError", NoPath, <<"p", "schema.json">>))
       ELSE \E verdict \in {"valid", "ValidationError", "SchemaError"} :
               IF verdict = "valid"
               THEN /\ pc' = "done"
                    /\ result' = Outcome(TRUE, "ok", NoPath, <<>>)
                    /\ UNCHANGED <<tool, fs, schema, resolve_flag, stack, data, exc>>
               ELSE Raise(Exc(verdict, NoPath, JsonPath))
    /\ UNCHANGED lookups

\* main() of extract_modules.py after load_json_with_refs
MainExtractModules ==
    /\ pc = "loaded" /\ tool = "modules"
    /\ LET modules == extract_modules(data, <<"">>, {}).list IN
       IF modules = <<>>
       THEN Finish(Outcome(FALSE, "Empty", NoPath, <<>>))
       ELSE Finish(Outcome(TRUE, "ok", NoPath, modules))

\* main() of extract_testcases.py after load_json_with_refs
MainExtractTestcases ==
    /\ pc = "loaded" /\ tool = "testcases"
    /\ LET testcases == extract_testcases(data, <<"">>, {}).list IN
       IF testcases = <<>>
       THEN Finish(Outcome(FALSE, "Empty", NoPath, <<>>))
       ELSE Finish(Outcome(TRUE, "ok", NoPath, testcases))

(***************************************************************************)
(* The files of a run                                                      *)
(***************************************************************************)
Ok(json) == [ok |-> TRUE, json |-> json]
Malformed == [ok |-> FALSE, json |-> None]
Absent == [ok |-> FALSE, json |-> NoData]

FileA == <<"p", "m", "a.json">>
FileMB == <<"p", "m", "b.json">>
FilePB == <<"p", "b.json">>
FileC == <<"p", "m", "n", "c.json">>

Ref(s) == Dict(<< <<"$ref", Str(s)>> >>)
Mod(name, label, extra) ==
    Dict(<< <<"name", Str(name)>>, <<"filepath", Str(<<label>>)>>,
            <<"docpath", Str(<<label, "md">>)>> >> \o extra)
Case(name, cmd) == Dict(<< <<"name", Str(<<name>>)>>, <<"run_cmd", Str(<<cmd>>)>> >>)
Test(label, cases) ==
    Dict(<< <<"test_case", List(cases)>>, <<"testbench_path", Str(<<label>>)>> >>)

RefA == Ref(<<".", "m", "a.json">>)

RootDocs ==
    { Ok(Mod(<<"cpu">>, "r", << <<"test", Test("r", <<Case("t0", "c0"), Case("t1", "c1")>>)>>,
                                <<"submodules", List(<<RefA, Mod(<<"x">>, "rx", <<>>)>>)>> >>)),
      Ok(Mod(<<"cpu">>, "r", << <<"submodules", RefA>> >>)),
      Ok(RefA),
      Ok(Mod(<<"cpu">>, "r",
             << <<"submodules",
                  List(<< Dict(<< <<"$ref", Str(<<"http:", "", "x">>)>>, <<"extra", RefA>> >>),
                          RefA >>)>> >>)),
      Ok(Mod(<<"cpu">>, "r", << <<"submodules", List(<<RefA, Ref(<<".", "b.json">>)>>)>> >>)),
      Ok(Dict(<< <<"$ref", Num(5)>> >>)),
      Ok(Ref(<<".", "m">>)),
      Ok(List(<<Ref(<<".", "q", "..", "b.json">>)>>)),
      Malformed,
      Absent }

DocsA ==
    { Ok(Mod(<<"alu">>, "a", <<>>)),
      Ok(Mod(<<"alu">>, "a",
             << <<"submodules", List(<<Ref(<<".", "n", "c.json">>), Ref(<<".", "b.json">>)>>)>> >>)),
      Ok(Mod(<<"alu">>, "a", << <<"submodules", Ref(<<"..", "b.json">>)>> >>)),
      Ok(Ref(<<".", "b.json">>)),
      Malformed,
      Absent }

DocsMB == { Ok(Mod(<<"add">>, "mb", <<>>)), Malformed, Absent }

DocsPB == { Ok(Mod(<<"bus">>, "pb", <<>>)), Absent }

DocsC ==
    { Ok(Mod(<<"mul">>, "c", <<>>)),
      Ok(Ref(<<"..", "b.json">>)),
      Ok(Mod(<<"mul">>, "c", << <<"submodules", Ref(<<"..", "a.json">>)>> >>)),
      Ok(Ref(<<".", "c.json">>)),
      Malformed,
      Absent }

FileSystem(r, a, mb, pb, c) ==
    LET all == (JsonPath :> r) @@ (FileA :> a) @@ (FileMB :> mb) @@ (FilePB :> pb)
               @@ (FileC :> c)
    IN [p \in {q \in DOMAIN all : all[q] # Absent} |-> all[p]]

FileSystems ==
    { FileSystem(r, a, mb, pb, c) :
        r \in RootDocs, a \in DocsA, mb \in DocsMB, pb \in DocsPB, c \in DocsC }

Init ==
    /\ tool \in {"modules", "testcases", "validate"}
    /\ fs \in FileSystems
    /\ schema \in IF tool = "validate" THEN {"ok", "missing", "malformed", "notdict"}
                  ELSE {"ok"}
    /\ resolve_flag \in IF tool = "validate" THEN BOOLEAN ELSE {TRUE}
    /\ pc \in IF tool = "validate" THEN {"main", "schema"} ELSE {"main"}
    /\ stack = <<>>
    /\ data = NoData
    /\ result = NoResult
    /\ exc = NoExc
    /\ lookups = <<>>

Next ==
    \/ MainStart
    \/ ValidateLoadSchema
    \/ LoadRoot
    \/ LoadRaw
    \/ ResolveDescend
    \/ ResolveRefNotString
    \/ ResolveRefMissing
    \/ ResolveRefUnreadable
    \/ ResolveRefLoad
    \/ ResolveOverflow
    \/ ResolveReturn
    \/ RunValidate
    \/ MainExtractModules
    \/ MainExtractTestcases

Spec == Init /\ [][Next]_vars

(***************************************************************************)
(* Resolved documents for the extractors: every module tree of at most     *)
(* MaxNodes nodes.  A node's filepath (for test cases, its testbench_path) *)
(* is its position in the document, "r" for the root and "r/2/1" for the   *)
(* first submodule of the root's second, so a record tells which node it   *)
(* was built from.                                                         *)
(***************************************************************************)
Root == <<"r">>

MaxNodes == 4
MaxTestNodes == 3

\* the trees of n nodes, numbered in pre-order: parent[i] is the parent of node i,
\* which lies on the path from node i - 1 up to the root
RECURSIVE PathToRoot(_, _)
PathToRoot(parent, i) == IF i = 0 THEN {} ELSE {i} \cup PathToRoot(parent, parent[i])

ParentVectors(n) ==
    { parent \in [1..n -> 0..(n - 1)] :
        /\ parent[1] = 0
        /\ \A i \in 2..n : parent[i] \in PathToRoot(parent, i - 1) }

\* the children of node i, in order
RECURSIVE KidsFrom(_, _, _)
KidsFrom(parent, i, j) ==
    IF j > Len(parent) THEN <<>>
    ELSE (IF parent[j] = i THEN <<j>> ELSE <<>>) \o KidsFrom(parent, i, j + 1)
Kids(parent, i) == KidsFrom(parent, i, i + 1)

Internal(parent) == {i \in 1..Len(parent) : Kids(parent, i) # <<>>}

\* how a node holds its children under "submodules": one child as a mapping or a
\* list, several as a list or as a list with a non-mapping entry after the first
Form(nkids, alt) ==
    IF nkids = 0 THEN "none"
    ELSE IF nkids = 1 THEN (IF alt THEN "dict" ELSE "list")
    ELSE (IF alt THEN "mixed" ELSE "list")

\* the index in the submodules list of the k-th child
ListIndex(form, k) == IF form = "mixed" /\ k >= 2 THEN k + 1 ELSE k

Submodules(form, kids) ==
    CASE form = "none" -> <<>>
      [] form = "dict" -> << <<"submodules", kids[1]>> >>
      [] form = "list" -> << <<"submodules", List(kids)>> >>
      [] form = "mixed" -> << <<"submodules", List(<<kids[1], Num(0)>> \o Tail(kids))>> >>

ModuleNames == {<<"">>, <<"a">>, <<"b">>, <<"a", "b">>}
ModuleDecor ==
    {[name |-> n, kind |-> "module"] : n \in ModuleNames \ {<<"b">>}}
    \cup {[name |-> <<"b">>, kind |-> "tested"], [name |-> <<"b">>, kind |-> "nodoc"]}

RECURSIVE RenderModule(_, _, _, _, _)
RenderModule(parent, decor, alt, i, pos) ==
    LET ks == Kids(parent, i)
        form == Form(Len(ks), i \in DOMAIN alt /\ alt[i])
        kids == [k \in 1..Len(ks) |->
                    RenderModule(parent, decor, alt, ks[k],
                                 Append(pos, ToString(ListIndex(form, k))))]
    IN Dict(<< <<"name", Str(decor[i].name)>>, <<"filepath", Str(pos)>> >>
            \o (IF decor[i].kind = "nodoc" THEN <<>>
                ELSE << <<"docpath", Str(Append(pos, "md"))>> >>)
            \o (IF decor[i].kind = "tested" THEN << <<"test", Test("tb", <<>>)>> >> ELSE <<>>)
            \o Submodules(form, kids))

IsModuleDoc(doc) ==
    \E n \in 1..MaxNodes : \E parent \in ParentVectors(n) :
        \E decor \in [1..n -> ModuleDecor] : \E alt \in [Internal(parent) -> BOOLEAN] :
            doc = RenderModule(parent, decor, alt, 1, <<"r">>)

\* a module description split over files: the root lists a reference, an inline
\* module and a second reference; the first referenced file lists two more
ModAt(name, pos, extra) ==
    Dict(<< <<"name", Str(name)>>, <<"filepath", Str(pos)>>,
            <<"docpath", Str(Append(pos, "md"))>> >> \o extra)

SplitRoot ==
    Ok(ModAt(<<"a">>, <<"r">>,
             << <<"submodules",
                  List(<<RefA, ModAt(<<"b">>, <<"r", "2">>, <<>>), Ref(<<".", "b.json">>)>>)>> >>))
SplitA ==
    Ok(ModAt(<<"a">>, <<"r", "1">>,
             << <<"submodules", List(<<Ref(<<".", "n", "c.json">>), Ref(<<".", "b.json">>)>>)>> >>))
SplitMB == Ok(ModAt(<<"b">>, <<"r", "1", "2">>, <<>>))
SplitPB == Ok(ModAt(<<"a", "b">>, <<"r", "3">>, <<>>))
SplitC ==
    { Ok(ModAt(<<"">>, <<"r", "1", "1">>, <<>>)),
      Ok(Dict(<< <<"$ref", Num(5)>> >>)),
      Ok(Ref(<<"..", "a.json">>)),
      Malformed,
      Absent }

SplitFileSystems == { FileSystem(SplitRoot, SplitA, SplitMB, SplitPB, c) : c \in SplitC }

\* extract_modules.py: either on a description kept in one file, taken up once it
\* is loaded, or on the split description, from the start of main()
InitModules ==
    /\ tool = "modules"
    /\ schema = "ok"
    /\ resolve_flag = TRUE
    /\ stack = <<>>
    /\ result = NoResult
    /\ exc = NoExc
    /\ lookups = <<>>
    /\ \/ /\ IsModuleDoc(data)
          /\ fs = (JsonPath :> Ok(data))
          /\ pc = "loaded"
       \/ /\ data = NoData
          /\ fs \in SplitFileSystems
          /\ pc = "main"

NextModules ==
    \/ MainStart
    \/ LoadRoot
    \/ ResolveDescend
    \/ ResolveRefNotString
    \/ ResolveRefMissing
    \/ ResolveRefUnreadable
    \/ ResolveRefLoad
    \/ ResolveOverflow
    \/ ResolveReturn
    \/ MainExtractModules

SpecModules == InitModules /\ [][NextModules]_vars

\* test descriptions: a node has a name or none, and a test configuration or none;
\* the configuration carries the node's position as testbench_path, and each test
\* case its one-based place in the list as run_cmd
TestCases(kind) ==
    CASE kind = "none" -> <<>>
      [] kind = "named" -> <<Case("t", "c1")>>
      [] kind = "mixed" ->
            << Dict(<< <<"run_cmd", Str(<<"c1">>)>> >>),
               Num(0),
               Case("n", "c3"),
               Dict(<< <<"run_cmd", Str(<<"c4">>)>> >>) >>

TestDecor ==
    {[name |-> n, test |-> k] : n \in {<<"a">>, <<"b">>}, k \in {"none", "named", "mixed"}}
    \cup {[name |-> <<"">>, test |-> "mixed"], [name |-> <<"-">>, test |-> "named"]}

RECURSIVE RenderTested(_, _, _, _, _)
RenderTested(parent, decor, alt, i, pos) ==
    LET ks == Kids(parent, i)
        form == Form(Len(ks), i \in DOMAIN alt /\ alt[i])
        kids == [k \in 1..Len(ks) |->
                    RenderTested(parent, decor, alt, ks[k],
                                 Append(pos, ToString(ListIndex(form, k))))]
    IN Dict((IF decor[i].name = <<"-">> THEN <<>> ELSE << <<"name", Str(decor[i].name)>> >>)
            \o (IF decor[i].test = "none" THEN <<>>
                ELSE << <<"test", Dict(<< <<"test_case", List(TestCases(decor[i].test))>>,
                                          <<"testbench_path", Str(pos)>> >>)>> >>)
            \o Submodules(form, kids))

IsTestedDoc(doc) ==
    \E n \in 1..MaxTestNodes : \E parent \in ParentVectors(n) :
        \E decor \in [1..n -> TestDecor] : \E alt \in [Internal(parent) -> BOOLEAN] :
            doc = RenderTested(parent, decor, alt, 1, Root)

\* extract_testcases.py has loaded a description kept in one file
InitTests ==
    /\ tool = "testcases"
    /\ IsTestedDoc(data)
    /\ fs = (JsonPath :> Ok(data))
    /\ schema = "ok"
    /\ resolve_flag = TRUE
    /\ pc = "loaded"
    /\ stack = <<>>
    /\ result = NoResult
    /\ exc = NoExc
    /\ lookups = <<>>

NextTests == MainExtractTestcases

SpecTests == InitTests /\ [][NextTests]_vars

\* extract_modules.py alone, with the scheduling of a single-threaded script: it runs
\* until it returns
ChainFileSystems ==
    { FileSystem(r, a, mb, Ok(Mod(<<"bus">>, "pb", <<>>)), c) :
        r \in RootDocs, a \in DocsA, mb \in DocsMB \ {Malformed},
        c \in DocsC \ {Absent, Ok(Ref(<<".", "c.json">>))} }

InitModulesRun == Init /\ tool = "modules" /\ fs \in ChainFileSystems

FairSpec == InitModulesRun /\ [][NextModules]_vars /\ WF_vars(NextModules)

(***************************************************************************)
(* The reference graph of the files of a run                               *)
(***************************************************************************)
\* the string begins with "./" or "../"
BeginsDotSlash(s) == Len(s) >= 2 /\ (s[1] = "." \/ s[1] = "..")

\* the relative reference strings resolve_refs follows in a value
RECURSIVE FollowedRefs(_)
FollowedRefs(x) ==
    IF IsDict(x)
    THEN IF HasKey(x, "$ref")
         THEN IF IsStr(Get(x, "$ref")) /\ BeginsDotSlash(Get(x, "$ref").v)
              THEN {Get(x, "$ref").v} ELSE {}
         ELSE UNION {FollowedRefs(x.v[i][2]) : i \in 1..Len(x.v)}
    ELSE IF IsList(x) THEN UNION {FollowedRefs(x.v[i]) : i \in 1..Len(x.v)}
    ELSE {}

Target(f, r) == Walk(<<>>, JoinPath(Parent(f), r))
TargetParses(f, r) ==
    LET w == Target(f, r) IN w.found /\ IsFile(w.at) /\ fs[w.at].ok
RefsIn(f) == IF fs[f].ok THEN FollowedRefs(fs[f].json) ELSE {}
Edges(f) == {Target(f, r).at : r \in {q \in RefsIn(f) : TargetParses(f, q)}}

RECURSIVE Closure(_)
Closure(S) ==
    LET T == S \cup UNION {Edges(f) : f \in S} IN IF T = S THEN S ELSE Closure(T)

Reachable == IF IsFile(JsonPath) THEN Closure({JsonPath}) ELSE {}
Cyclic == \E f \in Reachable : f \in Closure(Edges(f))
Acyclic == ~Cyclic
TargetsParse ==
    /\ IsFile(JsonPath) /\ fs[JsonPath].ok
    /\ \A f \in Reachable : \A r \in RefsIn(f) : TargetParses(f, r)

\* a mapping with a relative $ref, at any depth
RECURSIVE HasRelativeRef(_)
HasRelativeRef(x) ==
    IF IsDict(x)
    THEN \/ HasKey(x, "$ref") /\ IsStr(Get(x, "$ref")) /\ BeginsDotSlash(Get(x, "$ref").v)
         \/ \E i \in 1..Len(x.v) : HasRelativeRef(x.v[i][2])
    ELSE IF IsList(x) THEN \E i \in 1..Len(x.v) : HasRelativeRef(x.v[i])
    ELSE FALSE

\* a mapping with a relative $ref that is not nested inside a reference node
RECURSIVE HasRelativeRefOutsideRefNode(_)
HasRelativeRefOutsideRefNode(x) ==
    IF IsDict(x)
    THEN IF HasKey(x, "$ref")
         THEN IsStr(Get(x, "$ref")) /\ BeginsDotSlash(Get(x, "$ref").v)
         ELSE \E i \in 1..Len(x.v) : HasRelativeRefOutsideRefNode(x.v[i][2])
    ELSE IF IsList(x) THEN \E i \in 1..Len(x.v) : HasRelativeRefOutsideRefNode(x.v[i])
    ELSE FALSE

\* load_json_with_refs has returned the document in data
ResolvedReturned == data # NoData /\ resolve_flag

(***************************************************************************)
(* C3 as stated: over an acyclic reference graph whose targets all exist   *)
(* and parse, the document resolve returns holds no mapping with a         *)
(* relative $ref at any depth, also not inside an opaque reference node.   *)
(***************************************************************************)
C3_NoRelativeRefAnywhere ==
    (Acyclic /\ TargetsParse /\ ResolvedReturned) => ~HasRelativeRef(data)

(***************************************************************************)
(* C3 amended: over an acyclic reference graph whose targets all exist and *)
(* parse, resolve terminates, and the document it returns holds no mapping *)
(* with a relative $ref except inside a reference node whose own $ref is   *)
(* opaque, which is returned unmodified.                                   *)
(***************************************************************************)
C3_ResolveTerminatesNoFollowableRef ==
    /\ [](Acyclic /\ TargetsParse /\ ResolvedReturned
            => ~HasRelativeRefOutsideRefNode(data))
    /\ (Acyclic /\ TargetsParse => <>(pc \in {"loaded", "done"}))

C3_Witness ==
    /\ Acyclic /\ TargetsParse /\ ResolvedReturned
    /\ pc = "loaded"
    /\ Len(lookups) >= 3
    /\ HasRelativeRef(data)

(***************************************************************************)
(* C4: a relative reference whose target does not exist, at any hop, ends  *)
(* the run with a FileNotFound failure naming the path looked up (the      *)
(* referring file's directory joined with the reference); no document is   *)
(* returned and nothing is extracted or validated.                         *)
(***************************************************************************)
C4_MissingTargetFails ==
    \A i \in 1..Len(lookups) :
        ~lookups[i].found =>
            /\ pc = "done"
            /\ ~result.ok /\ ~result.raised
            /\ result.category = "FileNotFound"
            /\ result.named = lookups[i].path
            /\ result.named = JoinPath(Parent(lookups[i].src), lookups[i].ref)
            /\ ~Exists(result.named)
            /\ data = NoData
            /\ result.out = <<>>

C4_Witness ==
    /\ Len(lookups) >= 3
    /\ ~lookups[Len(lookups)].found
    /\ lookups[Len(lookups)].src # JsonPath
    /\ pc = "done"

(***************************************************************************)
(* C6: validate_json never lets an exception out: it returns success with  *)
(* no message, or a failure in one of four categories, the generic one for *)
(* every failure that is not file-not-found, malformed JSON or a schema     *)
(* violation.                                                              *)
(***************************************************************************)
C6_ValidateClosedOutcomes ==
    (tool = "validate" /\ pc = "done" /\ (result.ok \/ exc # NoExc)) =>
        /\ ~result.raised
        /\ result.ok => result.category = "ok" /\ result.named = NoPath /\ exc = NoExc
        /\ ~result.ok =>
            /\ result.category \in
                 {"FileNotFound", "MalformedDocument", "SchemaViolation", "Unexpected"}
            /\ result.category = "FileNotFound" <=> exc.cls = "FileNotFoundError"
            /\ result.category = "MalformedDocument" <=> exc.cls = "JSONDecodeError"
            /\ result.category = "SchemaViolation" <=> exc.cls = "ValidationError"

C6_Witness ==
    /\ tool = "validate" /\ pc = "done"
    /\ result.category = "Unexpected"
    /\ exc.cls \in {"SchemaError", "RecursionError", "IsADirectoryError"}

(***************************************************************************)
(* C7: when a file of the reference chain is not valid JSON, the failure   *)
(* surfaced is MalformedDocument and names the file that failed to parse.  *)
(***************************************************************************)
SameFile(p, q) == Walk(<<>>, p) = Walk(<<>>, q)

C7_MalformedNamesOffendingFile ==
    (pc = "done" /\ exc.cls = "JSONDecodeError" /\ exc.src # <<"p", "schema.json">>) =>
        /\ result.category = "MalformedDocument"
        /\ SameFile(result.named, exc.src)

(***************************************************************************)
(* C9: every relative reference is looked up relative to the directory of  *)
(* the file that contains the reference node, at every hop.                *)
(***************************************************************************)
C9_ResolvedAgainstContainingFile ==
    /\ \A i \in 1..Len(lookups) :
         lookups[i].path = JoinPath(Parent(lookups[i].src), lookups[i].ref)
    /\ \A k \in 1..Len(stack) : stack[k].base = Parent(stack[k].file)

C9_Witness ==
    \E i \in 1..Len(lookups) :
        /\ i >= 3
        /\ lookups[i].found
        /\ Parent(lookups[i].src) # Parent(JsonPath)
        /\ Exists(JoinPath(Parent(JsonPath), lookups[i].ref))
        /\ ~SameFile(JoinPath(Parent(JsonPath), lookups[i].ref), lookups[i].path)

(***************************************************************************)
(* Positions in a generated document                                       *)
(***************************************************************************)
\* the number an index of a position stands for
Ord(s) == CHOOSE i \in 1..9 : ToString(i) = s

\* p comes before q in depth-first pre-order: a node before its descendants, a
\* subtree before the next sibling's
Before(p, q) ==
    \E k \in 2..Len(q) :
        /\ \A m \in 1..(k - 1) : m <= Len(p) /\ p[m] = q[m]
        /\ k > Len(p) \/ Ord(p[k]) < Ord(q[k])

\* the mapping at a position below x
RECURSIVE NodeAt(_, _)
NodeAt(x, rel) ==
    IF rel = <<>> THEN x
    ELSE LET sub == Get(x, "submodules") IN
         NodeAt(IF IsDict(sub) THEN sub ELSE sub.v[Ord(Head(rel))], Tail(rel))

\* the positions of the mappings of the submodule tree, in pre-order
RECURSIVE PositionsFrom(_, _)
RECURSIVE PositionsIn(_, _, _)
PositionsFrom(x, pos) ==
    LET sub == GetOpt(x, "submodules") IN
    <<pos>> \o (IF IsDict(sub) THEN PositionsFrom(sub, Append(pos, "1"))
                ELSE IF IsList(sub) THEN PositionsIn(sub.v, 1, pos)
                ELSE <<>>)
PositionsIn(items, i, pos) ==
    IF i > Len(items) THEN <<>>
    ELSE (IF IsDict(items[i]) THEN PositionsFrom(items[i], Append(pos, ToString(i)))
          ELSE <<>>)
         \o PositionsIn(items, i + 1, pos)

NodeOf(pos) == NodeAt(data, Tail(pos))
HasThreeFields(x) == HasKey(x, "name") /\ HasKey(x, "filepath") /\ HasKey(x, "docpath")

(***************************************************************************)
(* The module nodes the traversal reaches: the root, and the submodules of *)
(* a node that emitted a record; each with the full path computed for it.  *)
(***************************************************************************)
RECURSIVE ReachedModules(_, _, _)
ReachedModules(ps, k, reached) ==
    IF k > Len(ps) THEN reached
    ELSE LET pos == ps[k]
             name == Get(NodeOf(pos), "name").v
             above == {c \in reached : c.pos = Parent(pos) /\ c.emitted}
             up == CHOOSE c \in above : TRUE
             path == IF pos = Root \/ up.path = <<"">> THEN name ELSE up.path \o name
         IN IF (pos = Root \/ above # {}) /\ HasThreeFields(NodeOf(pos))
            THEN ReachedModules(ps, k + 1, reached \cup
                    {[pos |-> pos, path |-> path,
                      emitted |-> \A c \in reached : c.path # path]})
            ELSE ReachedModules(ps, k + 1, reached)

Reached == ReachedModules(PositionsFrom(data, Root), 1, {})

ModulesDone == tool = "modules" /\ pc = "done" /\ exc = NoExc

(***************************************************************************)
(* C1: no two records share a full_path; of the module nodes the traversal *)
(* reaches with the same full path, the first in depth-first order gives   *)
(* the record (filepath, docpath, has_test, has_submodules) and the later  *)
(* ones give none.                                                         *)
(***************************************************************************)
C1_FirstOfEachFullPath ==
    ModulesDone =>
        LET out == result.out IN
        /\ \A i, j \in 1..Len(out) : out[i].full_path = out[j].full_path => i = j
        /\ \A c \in Reached : \E i \in 1..Len(out) : out[i].full_path = c.path
        /\ \A i \in 1..Len(out) :
             LET same == {c \in Reached : c.path = out[i].full_path} IN
             /\ same # {}
             /\ \A c \in same :
                  (\A e \in same : e = c \/ Before(c.pos, e.pos)) =>
                      /\ out[i].filepath = Str(c.pos)
                      /\ out[i].docpath = Get(NodeOf(c.pos), "docpath")
                      /\ out[i].has_test = HasKey(NodeOf(c.pos), "test")
                      /\ out[i].has_submodules = HasKey(NodeOf(c.pos), "submodules")

\* two reached nodes with one full path and different ancestries, the later one dropped
C1_Witness ==
    /\ ModulesDone
    /\ \E c, e \in Reached :
         /\ c.path = e.path /\ Before(c.pos, e.pos)
         /\ Len(c.pos) # Len(e.pos)
         /\ HasKey(NodeOf(c.pos), "test") # HasKey(NodeOf(e.pos), "test")
         /\ \E i \in 1..Len(result.out) : result.out[i].filepath = Str(c.pos)
         /\ \A i \in 1..Len(result.out) : result.out[i].filepath # Str(e.pos)

(***************************************************************************)
(* C2: a sub-module's full_path is its parent's full_path, "/" and its own *)
(* name, and its parent field is the parent's full_path; the root-level    *)
(* module's full_path is its name and it has no parent; for every name,    *)
(* the empty one included.                                                 *)
(***************************************************************************)
C2_ChildPathExtendsParentPath ==
    ModulesDone =>
        LET out == result.out IN
        \A i \in 1..Len(out) :
            IF out[i].filepath.v = Root
            THEN out[i].full_path = out[i].name.v /\ out[i].parent = None
            ELSE \E j \in 1..Len(out) :
                    /\ out[j].filepath.v = Parent(out[i].filepath.v)
                    /\ out[i].full_path = out[j].full_path \o out[i].name.v
                    /\ out[i].parent = Str(out[j].full_path)

(***************************************************************************)
(* C10: the records are in depth-first pre-order: a module before its      *)
(* descendants, the whole subtree of a sub-module before its next sibling, *)
(* siblings in the order of the submodules sequence.                       *)
(***************************************************************************)
C10_PreOrder ==
    ModulesDone =>
        \A i, j \in 1..Len(result.out) :
            i < j => Before(result.out[i].filepath.v, result.out[j].filepath.v)

\* a record, its sub-module's, then its next sibling's, of a description read from
\* several files
C10_Witness ==
    /\ ModulesDone
    /\ Len(lookups) >= 3
    /\ \E i, j, k \in 1..Len(result.out) :
         /\ i < j /\ j < k
         /\ Parent(result.out[j].filepath.v) = result.out[i].filepath.v
         /\ Parent(result.out[k].filepath.v) = Parent(result.out[i].filepath.v)
         /\ result.out[i].filepath.v # Root

(***************************************************************************)
(* The named nodes extract_testcases reaches: the root, and the submodules *)
(* of a node it processed; a node is processed when no node reached        *)
(* earlier has its name.                                                   *)
(***************************************************************************)
RECURSIVE ReachedNamed(_, _, _)
ReachedNamed(ps, k, reached) ==
    IF k > Len(ps) THEN reached
    ELSE LET pos == ps[k]
             above == {c \in reached : c.pos = Parent(pos) /\ c.processed}
         IN IF (pos = Root \/ above # {}) /\ HasKey(NodeOf(pos), "name")
            THEN ReachedNamed(ps, k + 1, reached \cup
                    {[pos |-> pos, name |-> Get(NodeOf(pos), "name"),
                      processed |-> \A c \in reached : c.name # Get(NodeOf(pos), "name")]})
            ELSE ReachedNamed(ps, k + 1, reached)

Named == ReachedNamed(PositionsFrom(data, Root), 1, {})

TestsDone == tool = "testcases" /\ pc = "done" /\ exc = NoExc

\* the test-case list of the node at a position
CasesAt(pos) ==
    IF HasKey(NodeOf(pos), "test") THEN Get(Get(NodeOf(pos), "test"), "test_case").v ELSE <<>>
MappingEntries(list) == {k \in 1..Len(list) : IsDict(list[k])}

\* the records built from the node at a position
RecordsOf(pos) ==
    LET FromPos(r) == r.testbench_path = Str(pos) IN SelectSeq(result.out, FromPos)

IsPrefix(p, q) == Len(p) <= Len(q) /\ SubSeq(q, 1, Len(p)) = p

(***************************************************************************)
(* C5: deduplication is by bare module name: the first node reached with a *)
(* name gives its test cases, a later node with that name gives none and   *)
(* no node below it gives any; all records with one module value come from *)
(* one node.                                                               *)
(***************************************************************************)
C5_DedupByBareName ==
    TestsDone =>
        LET out == result.out IN
        /\ \A c \in Named :
             Len(RecordsOf(c.pos)) =
                IF c.processed THEN Cardinality(MappingEntries(CasesAt(c.pos))) ELSE 0
        /\ \A c \in Named : \A i \in 1..Len(out) :
             ~(~c.processed /\ IsPrefix(c.pos, out[i].testbench_path.v))
        /\ \A i \in 1..Len(out) :
             \E c \in Named : c.processed /\ c.name = out[i].module
                              /\ out[i].testbench_path = Str(c.pos)
        /\ \A i, j \in 1..Len(out) :
             out[i].module = out[j].module => out[i].testbench_path = out[j].testbench_path

\* a later node with the name of a processed one, of another ancestry, with test
\* cases of its own and a tested node below it
C5_Witness ==
    /\ TestsDone
    /\ result.out # <<>>
    /\ \E c, e \in Named :
         /\ c.processed /\ ~e.processed /\ c.name = e.name
         /\ Len(c.pos) # Len(e.pos)
         /\ CasesAt(e.pos) # <<>>
         /\ \E q \in {PositionsFrom(data, Root)[k] : k \in 1..Len(PositionsFrom(data, Root))} :
              q # e.pos /\ IsPrefix(e.pos, q) /\ CasesAt(q) # <<>>

(***************************************************************************)
(* C8: a processed module with a non-empty test-case list gives one record *)
(* per mapping entry of the list, in list order; an entry without a name   *)
(* is named "test_<i>", i its zero-based place in the list, and an entry   *)
(* with a name keeps it.                                                   *)
(***************************************************************************)
ZeroBasedName == <<"test_0", "test_1", "test_2", "test_3", "test_4">>

\* the place in the list of the m-th mapping entry
RECURSIVE NthMapping(_, _, _)
NthMapping(list, m, k) ==
    IF IsDict(list[k]) THEN (IF m = 1 THEN k ELSE NthMapping(list, m - 1, k + 1))
    ELSE NthMapping(list, m, k + 1)

C8_OneRecordPerEntryIndexNames ==
    TestsDone =>
        \A c \in Named :
            c.processed /\ CasesAt(c.pos) # <<>> =>
                LET list == CasesAt(c.pos)
                    recs == RecordsOf(c.pos)
                IN /\ Len(recs) = Cardinality(MappingEntries(list))
                   /\ \A m \in 1..Len(recs) :
                        LET k == NthMapping(list, m, 1) IN
                        /\ recs[m].run_cmd = Get(list[k], "run_cmd")
                        /\ recs[m].test_name =
                              IF HasKey(list[k], "name") THEN Get(list[k], "name")
                              ELSE Str(<<ZeroBasedName[k]>>)

\* an unnamed entry after a non-mapping entry and a named one
C8_Witness ==
    /\ TestsDone
    /\ \E i \in 1..Len(result.out) :
         /\ result.out[i].test_name = Str(<<"test_3">>)
         /\ i > 2
         /\ result.out[i - 1].test_name = Str(<<"n">>)
         /\ result.out[i - 2].test_name = Str(<<"test_0">>)

(***************************************************************************)
(* C11: the module_path of a test-case record is the names of the visited  *)
(* ancestors of the owning module, root first, down to its direct parent,  *)
(* joined with "/", and the empty string for the root module: each module  *)
(* hands its sub-modules its own module_path, "/" and its name, or just    *)
(* its name at the root.                                                   *)
(***************************************************************************)
\* the names of the nodes above a position, root first
AncestorNames(pos) ==
    [k \in 1..(Len(pos) - 1) |-> Get(NodeOf(SubSeq(pos, 1, k)), "name").v]

\* "/".join(names)
RECURSIVE SlashJoined(_)
SlashJoined(names) ==
    IF names = <<>> THEN <<"">>
    ELSE IF Len(names) = 1 THEN names[1]
    ELSE names[1] \o SlashJoined(Tail(names))

C11_ModulePathIsAncestorChain ==
    TestsDone =>
        \A i \in 1..Len(result.out) :
            result.out[i].module_path =
                SlashJoined(AncestorNames(result.out[i].testbench_path.v))

(***************************************************************************)
(* C12: resolve detects no cycle.  When the relative references reachable  *)
(* from the root form a cycle, no resolved document is ever returned and   *)
(* no CyclicReference failure is produced; and a reference to a file that  *)
(* is being resolved already is looked up, read and recursed into like any *)
(* other, until the recursion fails.                                       *)
(***************************************************************************)
\* the call on top of the stack is about to follow a reference whose target parses
\* and is a file some call on the stack is resolving
HopIntoOpenFile ==
    /\ pc = "resolve" /\ stack # <<>>
    /\ IsDict(Top.obj) /\ HasKey(Top.obj, "$ref") /\ IsStr(Get(Top.obj, "$ref"))
    /\ BeginsDotSlash(Get(Top.obj, "$ref").v)
    /\ Top.acc = <<>>
    /\ TargetParses(Top.file, Get(Top.obj, "$ref").v)
    /\ \E k \in 1..Len(stack) :
         Walk(<<>>, stack[k].file) = Target(Top.file, Get(Top.obj, "$ref").v)

C12_NoCycleDetection ==
    /\ [](Cyclic /\ resolve_flag =>
            /\ data = NoData /\ pc # "loaded"
            /\ ~result.ok /\ result.category # "CyclicReference"
            /\ exc.cls # "CyclicReference")
    /\ [][HopIntoOpenFile =>
            /\ Len(lookups') = Len(lookups) + 1
            /\ lookups'[Len(lookups')].found
            /\ lookups'[Len(lookups')].src = Top.file
            /\ Walk(<<>>, lookups'[Len(lookups')].path)
                 = Target(Top.file, Get(Top.obj, "$ref").v)
            /\ \/ /\ Len(stack') = Len(stack) + 1
                  /\ stack'[Len(stack')].obj
                       = fs[Target(Top.file, Get(Top.obj, "$ref").v).at].json
               \/ exc'.cls = "RecursionError"]_vars

\* a cycle over two files, followed round and round until the recursion fails
C12_Witness ==
    /\ Cyclic /\ resolve_flag
    /\ pc = "done" /\ exc.cls = "RecursionError"
    /\ \E i, j \in 1..Len(lookups) :
         /\ i < j
         /\ SameFile(lookups[i].src, lookups[j].src)
         /\ SameFile(lookups[i].path, lookups[j].path)
         /\ lookups[i].ref = lookups[j].ref
         /\ ~SameFile(lookups[i].src, lookups[i].path)

====
